---- MODULE Spec2Model ----
(***************************************************************************)
(* Model of the block samplers of large_graphs.ipynb:                       *)
(*   FullNeighborBlockSampler.sample  (cell 9,  lines 331-346)              *)
(*   NeighborSampler.sample           (cell 13, lines 486-507)              *)
(* together with the three DGL calls they are made of: dgl.in_subgraph,     *)
(* dgl.sampling.sample_neighbors and dgl.to_block.                          *)
(*                                                                          *)
(* A graph is a record [n, edges]: node ids are 0..n-1 and edges is the     *)
(* sequence of directed edges <<u, v>> in edge-id order.  A block is a      *)
(* record [src, dst, edges, ndst]: src and dst are the dgl.NID lists of     *)
(* the two sides, edges the sequence of <<i, j>> pairs of local positions   *)
(* (1-based here, 0-based in DGL), ndst is number_of_dst_nodes().           *)
(***************************************************************************)
EXTENDS Integers, Sequences, FiniteSets, TLC

\* ------------------------------------------------------------------ bounds
MaxLayers == 2      \* longest layer count / fanout list tried
MaxFanout == 2      \* largest fanout tried
MaxSeeds  == 2      \* longest seed collection tried on the small graphs
MaxCalls  == 2      \* number of sample calls made on one sampler
SmallN    == 4      \* graphs of at most this many nodes get every seed list
MaxTrain  == 3      \* largest number of training node ids given to the loader
MaxBatch  == 3      \* largest batch_size of the loader

\* ----------------------------------------------------------------- helpers
Range(s) == {s[k] : k \in 1..Len(s)}

NoDup(s) == \A a, b \in 1..Len(s) : s[a] = s[b] => a = b

\* position of x in a duplicate-free sequence (the id hash map's lookup)
Index(s, x) == CHOOSE k \in 1..Len(s) : s[k] = x

\* values of s without repetition, in order of first occurrence
\* (IdHashMap.Values(): ids are numbered in insertion order)
Unique(s) ==
  LET firsts == {k \in 1..Len(s) : \A j \in 1..(k - 1) : s[j] # s[k]}
      nth(m) == CHOOSE k \in firsts : Cardinality({j \in firsts : j <= k}) = m
  IN [m \in 1..Cardinality(firsts) |-> s[nth(m)]]

Min(a, b) == IF a <= b THEN a ELSE b

\* reversed(list)
Reverse(s) == [k \in 1..Len(s) |-> s[Len(s) + 1 - k]]

\* all sequences over S of length at most n
SeqsUpTo(S, n) == UNION {[1..k -> S] : k \in 0..n}

\* ------------------------------------------------------------------ graphs
\* example_graph of cell 3: nx.Graph(edge list) turned into a directed DGL
\* graph; every undirected edge gives both directions, edge ids follow the
\* networkx node order 0,2,4,6,7,8,9,10,1,3,5,11 and each node's adjacency.
ExampleGraph ==
  [n |-> 12,
   edges |-> << <<0,2>>, <<0,4>>, <<0,6>>, <<0,7>>, <<0,8>>, <<0,9>>, <<0,10>>,
                <<2,0>>, <<2,1>>, <<2,3>>, <<2,4>>, <<2,6>>,
                <<4,0>>, <<4,2>>, <<4,7>>,
                <<6,0>>, <<6,2>>,
                <<7,0>>, <<7,4>>,
                <<8,0>>, <<8,3>>, <<8,9>>, <<8,11>>,
                <<9,0>>, <<9,8>>, <<9,10>>, <<9,11>>,
                <<10,0>>, <<10,9>>,
                <<1,2>>, <<1,3>>, <<1,5>>,
                <<3,1>>, <<3,2>>, <<3,5>>, <<3,8>>,
                <<5,1>>, <<5,3>>,
                <<11,8>>, <<11,9>> >>]

\* a directed chain 0 -> 1 -> 2 -> 3: the L-hop dependency grows with L
ChainGraph == [n |-> 4, edges |-> << <<0,1>>, <<1,2>>, <<2,3>> >>]

\* a hub (node 0, in-degree 3), a self loop (2 -> 2), a node without
\* incoming edges (3) and one-directional edges
HubGraph ==
  [n |-> 4,
   edges |-> << <<1,0>>, <<2,0>>, <<3,0>>, <<0,1>>, <<2,2>>, <<1,2>> >>]

Graphs == {ExampleGraph, ChainGraph, HubGraph}

Nodes(G) == 0..(G.n - 1)

\* seed collections handed to sample: every list (repetitions included) on a
\* small graph and two lists with the id N, which no node has; the lists of
\* the notebook's cells on the example graph
SeedInputs(G) ==
  IF G.n <= SmallN
  THEN SeqsUpTo(Nodes(G), MaxSeeds) \cup {<<G.n>>, <<0, G.n>>}
  ELSE {<<>>, <<4, 6>>, <<6, 4>>, <<5>>, <<4, 4>>, <<4, 6, 0, 2, 7>>}

\* --------------------------------------------------------------- DGL calls
\* variant of RowsRaise without the row index check
RowsRaise_unchecked(G, nodes) == FALSE

\* dgl.in_subgraph and dgl.sampling.sample_neighbors raise ("Invalid row
\* index") when asked for the in-edges of an id that is not a node of g
RowsRaise(G, nodes) ==
  \E k \in 1..Len(nodes) : nodes[k] < 0 \/ nodes[k] >= G.n

\* variant of InEdges that loses the last edge into v
InEdges_droplast(G, v) ==
  LET es == SelectSeq(G.edges, LAMBDA e : e[2] = v)
  IN IF es = <<>> THEN es ELSE SubSeq(es, 1, Len(es) - 1)

\* in-edges of node v, in edge-id order
InEdges(G, v) == SelectSeq(G.edges, LAMBDA e : e[2] = v)

\* dgl.in_subgraph(g, nodes): the edges going into the given nodes, node by
\* node in the order given (cell 4 prints (0,4),(2,4),(7,4),(0,6),(2,6))
RECURSIVE in_subgraph(_, _)
in_subgraph(G, nodes) ==
  IF nodes = <<>> THEN <<>>
  ELSE InEdges(G, Head(nodes)) \o in_subgraph(G, Tail(nodes))

\* variant of Picks with the degree test off by one: a node with fanout + 1
\* edges keeps them all
Picks_offbyone(es, fanout) ==
  IF Len(es) <= fanout + 1 THEN {es}
  ELSE {[k \in 1..fanout |-> es[p[k]]] :
          p \in {q \in [1..fanout -> 1..Len(es)] :
                   \A a, b \in 1..fanout : q[a] = q[b] => a = b}}

\* the ways of picking `fanout` of the edges es without replacement; DGL
\* returns every edge, in order, when there are no more than fanout of them
Picks(es, fanout) ==
  IF Len(es) <= fanout THEN {es}
  ELSE {[k \in 1..fanout |-> es[p[k]]] :
          p \in {q \in [1..fanout -> 1..Len(es)] :
                   \A a, b \in 1..fanout : q[a] = q[b] => a = b}}

\* dgl.sampling.sample_neighbors(g, nodes, fanout): every result the random
\* choice can produce, node by node in the order given
RECURSIVE sample_neighbors(_, _, _)
sample_neighbors(G, nodes, fanout) ==
  IF nodes = <<>> THEN {<<>>}
  ELSE {p \o rest : p \in Picks(InEdges(G, Head(nodes)), fanout),
                    rest \in sample_neighbors(G, Tail(nodes), fanout)}

\* variant of BlockSrc that numbers the edge sources before the dst nodes
BlockSrc_sources_first(es, dst_nodes) ==
  Unique([k \in 1..Len(es) |-> es[k][1]] \o dst_nodes)

\* variant of BlockSrc that lists every edge source, seen before or not
BlockSrc_no_dedup(es, dst_nodes) ==
  dst_nodes \o [k \in 1..Len(es) |-> es[k][1]]

\* variant of BlockSrc that lists the new edge sources in increasing id order
BlockSrc_sorted(es, dst_nodes) ==
  LET fresh == SelectSeq(Unique([k \in 1..Len(es) |-> es[k][1]]),
                         LAMBDA u : u \notin Range(dst_nodes))
  IN Unique(dst_nodes) \o SortSeq(fresh, LAMBDA x, y : x < y)

\* source side of dgl.to_block: the dst nodes first, then the edge sources
\* not yet seen, in first-seen order (lhs id map, include_dst_in_src = True)
BlockSrc(es, dst_nodes) ==
  Unique(dst_nodes \o [k \in 1..Len(es) |-> es[k][1]])

\* variant of BlockRaises that also rejects an empty dst_nodes
BlockRaises_on_empty(es, dst_nodes) ==
  \/ \E k \in 1..Len(es) : es[k][2] \notin Range(dst_nodes)
  \/ Len(Unique(dst_nodes)) # Len(dst_nodes)
  \/ dst_nodes = <<>>

\* dgl.to_block raises when an edge ends outside dst_nodes, and when
\* dst_nodes repeats an id: the dst side then has fewer nodes than the id
\* list stored as dstdata[dgl.NID]
BlockRaises(es, dst_nodes) ==
  \/ \E k \in 1..Len(es) : es[k][2] \notin Range(dst_nodes)
  \/ Len(Unique(dst_nodes)) # Len(dst_nodes)

\* variant of to_block whose dst side holds only the nodes that have an edge
to_block_compact(es, dst_nodes) ==
  LET rhs == Unique([k \in 1..Len(es) |-> es[k][2]])
      lhs == Unique(rhs \o [k \in 1..Len(es) |-> es[k][1]])
  IN [src   |-> lhs,
      dst   |-> rhs,
      edges |-> [k \in 1..Len(es) |->
                   <<Index(lhs, es[k][1]), Index(rhs, es[k][2])>>],
      ndst  |-> Len(rhs)]

\* dgl.to_block(sampled_graph, seeds)
to_block(es, dst_nodes) ==
  LET lhs == BlockSrc(es, dst_nodes)
      rhs == Unique(dst_nodes)
  IN [src   |-> lhs,
      dst   |-> dst_nodes,
      edges |-> [k \in 1..Len(es) |->
                   <<Index(lhs, es[k][1]), Index(rhs, es[k][2])>>],
      ndst  |-> Len(rhs)]

\* ------------------------------------------------------------------- state
VARIABLES
  g,            \* self.g
  kind,         \* "full": FullNeighborBlockSampler, "neighbor": NeighborSampler
  num_layers,   \* self.num_layers (full)
  num_fanouts,  \* self.num_fanouts (neighbor)
  pc,           \* "idle", "loop" (inside sample), "done" (returned), "error"
  arg,          \* the seeds argument of the current call
  seeds,        \* local variable seeds
  blocks,       \* local variable blocks
  i,            \* number of loop iterations completed
  frontiers,    \* history: the seeds each block of blocks was built from
  used,         \* history: the fanout each block of blocks was sampled with
  prev,         \* history: <<[arg, blocks]>> of the last returned full call
  calls,        \* number of calls made so far
  inf,          \* the running call of inference_with_sagenet (InferSpec)
  dl,           \* the pass of train_dataloader under way (LoaderSpec)
  peers         \* sampler instances building side by side (PeerSpec)

vars == <<g, kind, num_layers, num_fanouts, pc, arg, seeds, blocks, i,
          frontiers, used, prev, calls, inf, dl, peers>>

\* the state of the drivers, which no sampler step touches
drivers == <<inf, dl, peers>>

config == <<g, kind, num_layers, num_fanouts>>

\* fanout lists handed to NeighborSampler: every list of positive fanouts,
\* and lists with a fanout of 0, which __init__ stores like any other
FanoutInputs ==
  SeqsUpTo(1..MaxFanout, MaxLayers) \cup {<<0>>, <<0, 1>>, <<1, 0>>}

\* number of layers the sampler is configured with
L == IF kind = "full" THEN num_layers ELSE Len(num_fanouts)

\* __init__ of either class stores its arguments unchecked
Init ==
  /\ g \in Graphs
  /\ \/ /\ kind = "full"
        /\ num_layers \in 0..MaxLayers
        /\ num_fanouts = <<>>
     \/ /\ kind = "neighbor"
        /\ g.n <= SmallN
        /\ num_layers = 0
        /\ num_fanouts \in FanoutInputs
  /\ pc = "idle"
  /\ arg = <<>>
  /\ seeds = <<>>
  /\ blocks = <<>>
  /\ i = 0
  /\ frontiers = <<>>
  /\ used = <<>>
  /\ prev = <<>>
  /\ calls = 0
  /\ inf = <<>>
  /\ dl = <<>>
  /\ peers = <<>>

\* variant of InitBlocks that keeps the list of the previous call
InitBlocks_reuse(old) == old

\* blocks = [] at the start of sample
InitBlocks(old) == <<>>

\* entry of sample(seeds)
Call(s) ==
  /\ pc = "idle"
  /\ calls < MaxCalls
  /\ calls' = calls + 1
  /\ arg' = s
  /\ seeds' = s
  /\ blocks' = InitBlocks(blocks)
  /\ i' = 0
  /\ frontiers' = <<>>
  /\ used' = <<>>
  /\ pc' = "loop"
  /\ UNCHANGED <<config, prev, drivers>>

\* variant of NextSeeds that continues from the dst side
NextSeeds_dst(block) == block.dst

\* seeds = sampled_block.srcdata[dgl.NID]
NextSeeds(block) == block.src

\* variant of Insert0 that appends
Insert0_append(list, x) == Append(list, x)

\* blocks.insert(0, sampled_block)
Insert0(list, x) == <<x>> \o list

\* one iteration of the loop of FullNeighborBlockSampler.sample
FullIter ==
  /\ pc = "loop"
  /\ kind = "full"
  /\ i < num_layers
  /\ LET sampled_graph == in_subgraph(g, seeds)
     IN IF RowsRaise(g, seeds) \/ BlockRaises(sampled_graph, seeds)
        THEN /\ pc' = "error"
             /\ UNCHANGED <<seeds, blocks, i, frontiers>>
        ELSE LET sampled_block == to_block(sampled_graph, seeds)
             IN /\ seeds' = NextSeeds(sampled_block)
                /\ blocks' = Insert0(blocks, sampled_block)
                /\ frontiers' = Insert0(frontiers, seeds)
                /\ i' = i + 1
                /\ pc' = "loop"
  /\ UNCHANGED <<config, arg, used, prev, calls, drivers>>

\* variant of FanoutAt that walks the list forwards
FanoutAt_forward(fanouts, k) == fanouts[k + 1]

\* the fanout of iteration number k (0-based) of
\* "for fanout in reversed(self.num_fanouts)"
FanoutAt(fanouts, k) == Reverse(fanouts)[k + 1]

\* one iteration of the loop of NeighborSampler.sample
NeighborIter ==
  /\ pc = "loop"
  /\ kind = "neighbor"
  /\ i < Len(num_fanouts)
  /\ LET fanout == FanoutAt(num_fanouts, i)
     IN \E sampled_graph \in sample_neighbors(g, seeds, fanout) :
          IF RowsRaise(g, seeds) \/ BlockRaises(sampled_graph, seeds)
          THEN /\ pc' = "error"
               /\ UNCHANGED <<seeds, blocks, i, frontiers, used>>
          ELSE LET sampled_block == to_block(sampled_graph, seeds)
               IN /\ seeds' = NextSeeds(sampled_block)
                  /\ blocks' = Insert0(blocks, sampled_block)
                  /\ frontiers' = Insert0(frontiers, seeds)
                  /\ used' = Insert0(used, fanout)
                  /\ i' = i + 1
                  /\ pc' = "loop"
  /\ UNCHANGED <<config, arg, prev, calls, drivers>>

\* the loop is exhausted: return blocks
Return ==
  /\ pc = "loop"
  /\ i = L
  /\ pc' = "done"
  /\ UNCHANGED <<config, arg, seeds, blocks, i, frontiers, used, prev, calls,
                 drivers>>

\* the caller takes the returned chain (or the exception) and the sampler
\* is ready for its next call
Resume ==
  /\ pc \in {"done", "error"}
  /\ pc' = "idle"
  /\ prev' = IF pc = "done" /\ kind = "full"
             THEN <<[arg |-> arg, blocks |-> blocks]>>
             ELSE prev
  /\ UNCHANGED <<config, arg, seeds, blocks, i, frontiers, used, calls,
                 drivers>>

Next ==
  \/ \E s \in SeedInputs(g) : Call(s)
  \/ FullIter
  \/ NeighborIter
  \/ Return
  \/ Resume

Spec == Init /\ [][Next]_vars

\* ---------------------------------------------------------- message passing
\* the chain FullNeighborBlockSampler(G, n).sample(sd) returns, for seeds
\* that dgl.to_block accepts: the loop of sample run to its end
RECURSIVE FullLoop(_, _, _, _)
FullLoop(G, sd, blks, n) ==
  IF n = 0 THEN blks
  ELSE LET sampled_block == to_block(in_subgraph(G, sd), sd)
       IN FullLoop(G, NextSeeds(sampled_block), Insert0(blks, sampled_block),
                   n - 1)

FullSample(G, sd, n) == FullLoop(G, sd, InitBlocks(<<>>), n)

\* the multiset of the rows of a list, as pairs <<row, multiplicity>>
Bag(rows) ==
  {<<rows[k], Cardinality({m \in 1..Len(rows) : rows[m] = rows[k]})>> :
     k \in 1..Len(rows)}

\* a deterministic layer transform (SAGEConv with the 'mean' aggregator):
\* the output row of a dst node is a function of the layer, of the node's
\* own input row and of the multiset of its in-neighbors' input rows.  The
\* row is kept as the term of that application.
Conv(layer, own, neigh) == [conv |-> layer, own |-> own, neigh |-> Bag(neigh)]

\* variant of propagate that takes the dst rows from the end of h
propagate_tail(block, h, layer) ==
  LET h_dst == SubSeq(h, Len(h) - block.ndst + 1, Len(h))
  IN [j \in 1..block.ndst |->
        LET es == SelectSeq(block.edges, LAMBDA e : e[2] = j)
        IN Conv(layer, h_dst[j], [k \in 1..Len(es) |-> h[es[k][1]]])]

\* SAGENet.propagate(block, h, layer): h_dst = h[:number_of_dst_nodes()],
\* then the layer on (block, (h, h_dst))
propagate(block, h, layer) ==
  LET h_dst == SubSeq(h, 1, block.ndst)
  IN [j \in 1..block.ndst |->
        LET es == SelectSeq(block.edges, LAMBDA e : e[2] = j)
        IN Conv(layer, h_dst[j], [k \in 1..Len(es) |-> h[es[k][1]]])]

\* SAGENet.forward(blocks, input_features) of a model with nconvs layers:
\* zip(self.convs, blocks) stops at the shorter of the two
RECURSIVE ForwardFrom(_, _, _, _)
ForwardFrom(blks, h, t, nconvs) ==
  IF t > Min(nconvs, Len(blks)) THEN h
  ELSE ForwardFrom(blks, propagate(blks[t], h, t), t + 1, nconvs)

forward(blks, input_features, nconvs) == ForwardFrom(blks, input_features, 1, nconvs)

\* h[ids]: the rows of h at the node ids given (ids count from 0)
Gather(h, ids) == [k \in 1..Len(ids) |-> h[ids[k] + 1]]

\* variant of ArangeSlice that stops one id early
ArangeSlice_short(n, start, size) ==
  [k \in 1..(Min(start + size, n) - start - 1) |-> start + k - 1]

\* torch.arange(n)[start : start + size]
ArangeSlice(n, start, size) ==
  [k \in 1..(Min(start + size, n) - start) |-> start + k - 1]

\* variant of Cat that joins the pieces last to first
RECURSIVE Cat_reversed(_)
Cat_reversed(list) ==
  IF list = <<>> THEN <<>> ELSE Cat_reversed(Tail(list)) \o Head(list)

\* torch.cat(list)
RECURSIVE Cat(_)
Cat(list) == IF list = <<>> THEN <<>> ELSE Head(list) \o Cat(Tail(list))

\* input feature matrices tried: row v (kept at position v + 1) of node v
FeatureInputs(G) ==
  {[v \in 1..G.n |-> v - 1], [v \in 1..G.n |-> (v - 1) % 2]}

\* ------------------------------------------------- inference_with_sagenet
\* the sampler state while a driver runs: no call of the sampler of Spec
SamplerUnused ==
  /\ kind = "full"
  /\ num_layers = 1
  /\ num_fanouts = <<>>
  /\ pc = "idle"
  /\ arg = <<>>
  /\ seeds = <<>>
  /\ blocks = <<>>
  /\ i = 0
  /\ frontiers = <<>>
  /\ used = <<>>
  /\ prev = <<>>
  /\ calls = 0

sampler == <<g, kind, num_layers, num_fanouts, pc, arg, seeds, blocks, i,
             frontiers, used, prev, calls>>

\* entry of inference_with_sagenet(sagenet, graph, input_features,
\* batch_size): block_sampler = FullNeighborBlockSampler(graph, 1), h =
\* input_features, then the first conv's new_h_list = []
InferInit ==
  /\ g \in Graphs
  /\ SamplerUnused
  /\ dl = <<>>
  /\ peers = <<>>
  /\ \E nconvs \in 1..MaxLayers, batch_size \in 1..(g.n + 1),
        x \in FeatureInputs(g) :
       inf = [pc |-> "loop", nconvs |-> nconvs, batch_size |-> batch_size,
              input_features |-> x, h |-> x, new_h_list |-> <<>>,
              conv |-> 1, batch_start |-> 0,
              batches |-> <<>>, layer_h |-> <<>>]

\* one iteration of the inner loop: one batch of nodes on the current conv
InferBatch ==
  /\ inf.pc = "loop"
  /\ inf.conv <= inf.nconvs
  /\ inf.batch_start < g.n
  /\ LET batch == ArangeSlice(g.n, inf.batch_start, inf.batch_size)
         block == FullSample(g, batch, 1)[1]
         input_node_ids == block.src
         h_input == Gather(inf.h, input_node_ids)
         new_h == propagate(block, h_input, inf.conv)
     IN inf' = [inf EXCEPT !.new_h_list = Append(@, new_h),
                           !.batch_start = @ + inf.batch_size,
                           !.batches = Append(@, batch)]
  /\ UNCHANGED <<sampler, dl, peers>>

\* the inner loop is exhausted: h = torch.cat(new_h_list), next conv
InferCat ==
  /\ inf.pc = "loop"
  /\ inf.conv <= inf.nconvs
  /\ inf.batch_start >= g.n
  /\ inf' = [inf EXCEPT !.h = Cat(inf.new_h_list),
                        !.layer_h = Append(@, Cat(inf.new_h_list)),
                        !.new_h_list = <<>>,
                        !.batches = <<>>,
                        !.batch_start = 0,
                        !.conv = @ + 1]
  /\ UNCHANGED <<sampler, dl, peers>>

\* the outer loop is exhausted: return h
InferReturn ==
  /\ inf.pc = "loop"
  /\ inf.conv > inf.nconvs
  /\ inf' = [inf EXCEPT !.pc = "done"]
  /\ UNCHANGED <<sampler, dl, peers>>

InferNext == InferBatch \/ InferCat \/ InferReturn

InferSpec == InferInit /\ [][InferNext]_vars

\* -------------------------------------------------------- train_dataloader
\* the chains NeighborSampler(G, fanouts).sample(sd) can return, for seeds
\* that dgl.to_block accepts: the loop of sample run to its end, for every
\* choice sample_neighbors can make
RECURSIVE NeighborLoop(_, _, _, _, _)
NeighborLoop(G, fanouts, sd, blks, k) ==
  IF k = Len(fanouts) THEN {blks}
  ELSE UNION {NeighborLoop(G, fanouts, NextSeeds(to_block(sg, sd)),
                           Insert0(blks, to_block(sg, sd)), k + 1) :
                sg \in sample_neighbors(G, sd, FanoutAt(fanouts, k))}

NeighborSample(G, fanouts, sd) ==
  NeighborLoop(G, fanouts, sd, InitBlocks(<<>>), 0)

\* the orders in which a pass visits the dataset: a random permutation with
\* shuffle=True, the given order otherwise
PassOrders(ids, shuffle) ==
  IF shuffle
  THEN {o \in [1..Len(ids) -> Range(ids)] : Range(o) = Range(ids)}
  ELSE {ids}

\* variant of LoaderBatch that drops the last, shorter batch
LoaderBatch_droplast(order, pos, batch_size) ==
  IF pos + batch_size > Len(order) THEN <<>>
  ELSE SubSeq(order, pos + 1, pos + batch_size)

\* the next batch of a pass (batch_size ids, drop_last=False)
LoaderBatch(order, pos, batch_size) ==
  SubSeq(order, pos + 1, Min(pos + batch_size, Len(order)))

\* node id arrays given to the loader: increasing, as mask.nonzero() gives
TrainInputs(G) ==
  {ids \in SeqsUpTo(Nodes(G), MaxTrain) :
     \A a, b \in 1..Len(ids) : a < b => ids[a] < ids[b]}

\* DataLoader(train_nid, batch_size=, collate_fn=neighbor_sampler.sample,
\* shuffle=) over a NeighborSampler of at least one layer
LoaderInit ==
  /\ g \in {G \in Graphs : G.n <= SmallN}
  /\ kind = "neighbor"
  /\ num_layers = 0
  /\ num_fanouts \in {f \in SeqsUpTo(1..MaxFanout, MaxLayers) : Len(f) >= 1}
  /\ pc = "idle"
  /\ arg = <<>>
  /\ seeds = <<>>
  /\ blocks = <<>>
  /\ i = 0
  /\ frontiers = <<>>
  /\ used = <<>>
  /\ prev = <<>>
  /\ calls = 0
  /\ inf = <<>>
  /\ peers = <<>>
  /\ \E ids \in TrainInputs(g), batch_size \in 1..MaxBatch,
        shuffle \in BOOLEAN :
       dl = [pc |-> "new", ids |-> ids, batch_size |-> batch_size,
             shuffle |-> shuffle, order |-> <<>>, pos |-> 0,
             yielded |-> <<>>]

\* "for blocks in train_dataloader": a pass begins
LoaderStart ==
  /\ dl.pc = "new"
  /\ \E order \in PassOrders(dl.ids, dl.shuffle) :
       dl' = [dl EXCEPT !.pc = "iter", !.order = order]
  /\ UNCHANGED <<sampler, inf, peers>>

\* the loader hands the next batch to collate_fn = neighbor_sampler.sample
\* and yields the chain it returns; of each chain the history keeps what the
\* training loop reads: blocks[0].srcdata[dgl.NID], blocks[-1].dstdata[dgl.NID]
LoaderNext ==
  /\ dl.pc = "iter"
  /\ dl.pos < Len(dl.order)
  /\ LET batch == LoaderBatch(dl.order, dl.pos, dl.batch_size)
     IN \E chain \in NeighborSample(g, num_fanouts, batch) :
          dl' = [dl EXCEPT !.pos = @ + dl.batch_size,
                           !.yielded = Append(@,
                              [batch |-> batch,
                               nblocks |-> Len(chain),
                               input_nodes |-> chain[1].src,
                               output_nodes |-> chain[Len(chain)].dst])]
  /\ UNCHANGED <<sampler, inf, peers>>

\* the pass is over
LoaderStop ==
  /\ dl.pc = "iter"
  /\ dl.pos >= Len(dl.order)
  /\ dl' = [dl EXCEPT !.pc = "end"]
  /\ UNCHANGED <<sampler, inf, peers>>

LoaderNext_ == LoaderStart \/ LoaderNext \/ LoaderStop

LoaderSpec == LoaderInit /\ [][LoaderNext_]_vars

\* ------------------------------------------------- samplers side by side
\* sampler objects built over one graph: the 2-layer full sampler of cell
\* 10, a 2-layer and a 1-layer fanout sampler
PeerConfigs ==
  {[kind |-> "full", num_layers |-> 2, num_fanouts |-> <<>>],
   [kind |-> "neighbor", num_layers |-> 0, num_fanouts |-> <<1, 1>>],
   [kind |-> "neighbor", num_layers |-> 0, num_fanouts |-> <<2>>]}

\* seed lists handed to the samplers running side by side
PeerSeeds(G) == {<<0>>, <<G.n - 1>>, <<0, 2>>}

\* variant of Locals in which every call works on the first call's locals
Locals_shared(ps, p) == ps[1].loc

\* the local variables (seeds, blocks, the loop position) of the call of
\* sample running on sampler p: each call has its own
Locals(ps, p) == ps[p].loc

\* two sampler objects are constructed over the same graph object; the
\* history field overlapped records that a call took a step, with blocks
\* already built, while the other call was in the middle of its own chain
PeerInit ==
  /\ g \in {G \in Graphs : G.n <= SmallN}
  /\ SamplerUnused
  /\ inf = <<>>
  /\ dl = <<>>
  /\ peers \in [{1, 2} -> {[cfg |-> c, arg |-> <<>>, overlapped |-> FALSE,
                             loc |-> [pc |-> "idle", seeds |-> <<>>,
                                      blocks |-> <<>>, i |-> 0]] :
                             c \in PeerConfigs}]

\* entry of sample(seeds) on sampler p
PeerCall(p, s) ==
  /\ Locals(peers, p).pc = "idle"
  /\ peers' = [peers EXCEPT ![p].arg = s, ![p].overlapped = FALSE,
                            ![p].loc = [pc |-> "loop", seeds |-> s,
                                        blocks |-> InitBlocks(<<>>), i |-> 0]]
  /\ UNCHANGED <<sampler, inf, dl>>

\* one iteration of the loop of sample on sampler p, of either class
PeerIter(p) ==
  LET me == Locals(peers, p)
      cfg == peers[p].cfg
      layers == IF cfg.kind = "full" THEN cfg.num_layers
                ELSE Len(cfg.num_fanouts)
      mid == me.i > 0 /\ \E q \in {1, 2} \ {p} :
                          peers[q].loc.pc = "loop" /\ peers[q].loc.i > 0
  IN /\ me.pc = "loop"
     /\ me.i < layers
     /\ \E sampled_graph \in
             (IF cfg.kind = "full" THEN {in_subgraph(g, me.seeds)}
              ELSE sample_neighbors(g, me.seeds,
                                    FanoutAt(cfg.num_fanouts, me.i))) :
          IF RowsRaise(g, me.seeds) \/ BlockRaises(sampled_graph, me.seeds)
          THEN peers' = [peers EXCEPT ![p].loc = [me EXCEPT !.pc = "error"]]
          ELSE LET sampled_block == to_block(sampled_graph, me.seeds)
               IN peers' = [peers EXCEPT
                            ![p].overlapped = @ \/ mid,
                            ![p].loc =
                              [pc |-> "loop",
                               seeds |-> NextSeeds(sampled_block),
                               blocks |-> Insert0(me.blocks, sampled_block),
                               i |-> me.i + 1]]
     /\ UNCHANGED <<sampler, inf, dl>>

\* the loop of sampler p is exhausted: return blocks
PeerReturn(p) ==
  LET me == Locals(peers, p)
      cfg == peers[p].cfg
      layers == IF cfg.kind = "full" THEN cfg.num_layers
                ELSE Len(cfg.num_fanouts)
  IN /\ me.pc = "loop"
     /\ me.i = layers
     /\ peers' = [peers EXCEPT ![p].loc = [me EXCEPT !.pc = "done"]]
     /\ UNCHANGED <<sampler, inf, dl>>

\* the calls advance one loop iteration at a time, in any order
PeerNext ==
  \/ \E p \in {1, 2}, s \in PeerSeeds(g) : PeerCall(p, s)
  \/ \E p \in {1, 2} : PeerIter(p)
  \/ \E p \in {1, 2} : PeerReturn(p)

PeerSpec == PeerInit /\ [][PeerNext]_vars

\* ------------------------------------------------------------ properties
\* in-degree of dst position j within block b
BlockInDegree(b, j) == Cardinality({k \in 1..Len(b.edges) : b.edges[k][2] = j})

\* the block's edges mapped back to global ids
GlobalEdges(b) == {<<b.src[e[1]], b.dst[e[2]]>> : e \in Range(b.edges)}

\* C1: in every block built by either sampler, at every layer, the dst id
\* list is the first D elements of the src id list, in the same order, D
\* being the block's number of dst nodes (so h[:D] is the dst nodes' rows).
PrefixInvariant ==
  \A k \in 1..Len(blocks) :
    LET b == blocks[k]
    IN /\ b.ndst <= Len(b.src)
       /\ b.dst = SubSeq(b.src, 1, b.ndst)

\* a neighbor-sampled 2-layer chain whose first block has source nodes
\* beyond its dst prefix
PrefixWitness ==
  /\ pc = "done"
  /\ kind = "neighbor"
  /\ Len(blocks) = 2
  /\ blocks[1].ndst > 0
  /\ Len(blocks[1].src) > blocks[1].ndst

\* C2: under full selection a block has the edge (a, j) exactly when the
\* graph has an edge from src[a] into dst[j], each graph edge once; and for
\* seeds 4,6 on the example graph the src ids are 4,6,0,2,7 and the edges
\* are (0,4),(2,4),(7,4),(0,6),(2,6).
EdgeCorrectnessFull ==
  /\ kind = "full" =>
       \A k \in 1..Len(blocks) :
         LET b == blocks[k]
         IN /\ \A a \in 1..Len(b.src), j \in 1..Len(b.dst) :
                 (<<a, j>> \in Range(b.edges))
                   <=> (<<b.src[a], b.dst[j]>> \in Range(g.edges))
            /\ \A e \in Range(b.edges) :
                 e[1] \in 1..Len(b.src) /\ e[2] \in 1..Len(b.dst)
            /\ Len(b.edges) =
                 Cardinality({m \in 1..Len(g.edges) :
                                g.edges[m][2] \in Range(b.dst)})
  /\ (kind = "full" /\ g = ExampleGraph /\ arg = <<4, 6>>
        /\ pc = "done" /\ L >= 1) =>
       /\ blocks[L].src = <<4, 6, 0, 2, 7>>
       /\ GlobalEdges(blocks[L]) =
            {<<0, 4>>, <<2, 4>>, <<7, 4>>, <<0, 6>>, <<2, 6>>}

\* the 2-layer full chain of cell 10 (seeds 4,6 on the example graph)
EdgeCorrectnessWitness ==
  /\ pc = "done"
  /\ kind = "full"
  /\ g = ExampleGraph
  /\ arg = <<4, 6>>
  /\ Len(blocks) = 2
  /\ Len(blocks[1].edges) = 19

FanoutBound ==
  kind = "neighbor" =>
    \A k \in 1..Len(blocks) :
      \A j \in 1..blocks[k].ndst :
        /\ BlockInDegree(blocks[k], j) <= used[k]
        /\ BlockInDegree(blocks[k], j) =
             Min(used[k], Len(InEdges(g, blocks[k].dst[j])))

\* a sampled block with a dst node of larger in-degree than the fanout (it
\* keeps fanout edges) and one of smaller in-degree (it keeps them all)
FanoutWitness ==
  /\ kind = "neighbor"
  /\ pc = "done"
  /\ Len(blocks) >= 1
  /\ \E j1, j2 \in 1..blocks[1].ndst :
       /\ Len(InEdges(g, blocks[1].dst[j1])) > used[1]
       /\ BlockInDegree(blocks[1], j1) = used[1]
       /\ Len(InEdges(g, blocks[1].dst[j2])) < used[1]
       /\ Len(InEdges(g, blocks[1].dst[j2])) > 0

\* nodes from which a node of S is reachable along at most n edges of G
RECURSIVE ReachWithin(_, _, _)
ReachWithin(G, S, n) ==
  IF n = 0 THEN S
  ELSE LET P == ReachWithin(G, S, n - 1)
       IN P \cup {e[1] : e \in {x \in Range(G.edges) : x[2] \in P}}

\* C5 as claimed: the dst ids of chain[i+1] equal the seed set that chain[i]
\* was built from.
ChainContinuityDst ==
  \A k \in 1..(Len(blocks) - 1) : blocks[k + 1].dst = frontiers[k]

\* C5 amended: the src ids of chain[i+1] equal the seed set that chain[i]
\* was built from; the dst ids of chain[i+1] are its first D elements only.
ChainContinuity ==
  \A k \in 1..(Len(blocks) - 1) :
    /\ blocks[k + 1].src = frontiers[k]
    /\ blocks[k + 1].dst = SubSeq(frontiers[k], 1, blocks[k + 1].ndst)

\* a returned 2-layer chain whose last block has more src than dst nodes
ChainContinuityWitness ==
  /\ pc = "done"
  /\ Len(blocks) = 2
  /\ frontiers[2] = arg
  /\ Len(blocks[2].src) > Len(blocks[2].dst)

\* C6: in every chain of either sampler the dst id list of a block is the
\* src id list of the next block, in the same order.
LayerAlignment ==
  \A k \in 1..(Len(blocks) - 1) : blocks[k].dst = blocks[k + 1].src

\* a returned 2-layer chain whose first block has more dst nodes than the
\* last one
LayerAlignmentWitness ==
  /\ pc = "done"
  /\ Len(blocks) = 2
  /\ blocks[1].ndst > blocks[2].ndst
  /\ blocks[2].ndst > 0

\* C7: sample returns exactly L blocks, the last block's dst ids are the
\* given seed ids in the given order, and the block at position i of a
\* NeighborSampler chain was sampled with num_fanouts[i].
ChainShape ==
  pc = "done" =>
    /\ Len(blocks) = L
    /\ L >= 1 => blocks[L].dst = arg
    /\ Len(frontiers) = L
    /\ L >= 1 => frontiers[L] = arg
    /\ kind = "neighbor" => used = num_fanouts

\* a returned NeighborSampler chain with two different fanouts
ChainShapeWitness ==
  /\ pc = "done"
  /\ kind = "neighbor"
  /\ Len(num_fanouts) = 2
  /\ num_fanouts[1] # num_fanouts[2]
  /\ Len(arg) = 2
  /\ Len(blocks[1].edges) > 0

\* C8: the src id set of the first block of an L-layer full chain is
\* exactly the set of nodes from which a seed is reachable along at most L
\* edges.
DependencyClosure ==
  (kind = "full" /\ pc = "done" /\ L >= 1) =>
    Range(blocks[1].src) = ReachWithin(g, Range(arg), L)

\* a 2-layer full chain on the directed chain graph: the closure has grown
\* at both layers and still leaves a node out
DependencyClosureWitness ==
  /\ kind = "full"
  /\ pc = "done"
  /\ L = 2
  /\ g = ChainGraph
  /\ arg = <<3>>
  /\ Range(blocks[1].src) = {3, 2, 1}

\* C9: sample with an empty seed collection returns without error a chain
\* of L blocks, each with no dst node and no edge.
EmptySeedSet ==
  (pc \in {"done", "error"} /\ arg = <<>>) =>
    /\ pc = "done"
    /\ Len(blocks) = L
    /\ \A k \in 1..Len(blocks) :
         /\ blocks[k].ndst = 0
         /\ blocks[k].dst = <<>>
         /\ blocks[k].edges = <<>>

\* a returned 2-layer chain for the empty seed collection
EmptySeedSetWitness ==
  /\ pc = "done"
  /\ arg = <<>>
  /\ L = 2
  /\ Len(blocks) = 2

\* C10: a call of FullNeighborBlockSampler.sample with the seeds of the
\* previous call returns the chain the previous call returned, and no step
\* changes the graph or the sampler's configuration.
IdempotentFull ==
  /\ [](kind = "full" /\ pc = "done" /\ prev # <<>> /\ prev[1].arg = arg
          => blocks = prev[1].blocks)
  /\ [][config' = config]_vars

\* a second call with the same non-empty seeds has returned a 2-layer chain
IdempotentFullWitness ==
  /\ kind = "full"
  /\ pc = "done"
  /\ calls = 2
  /\ prev # <<>>
  /\ prev[1].arg = arg
  /\ arg # <<>>
  /\ Len(blocks) = 2
  /\ Len(blocks[1].edges) > 0

\* the block of the whole graph: every node a dst node, every edge kept
WholeGraphBlock(G) ==
  LET all == [k \in 1..G.n |-> k - 1]
  IN to_block(in_subgraph(G, all), all)

\* C11: for a 1-layer model, inference_with_sagenet returns, for every node
\* and whatever the batch size between 1 and N, the row that one application
\* of the layer to the whole graph's in-subgraph gives that node.
InferenceConsistency ==
  (inf.pc = "done" /\ inf.nconvs = 1) =>
    LET whole == WholeGraphBlock(g)
    IN inf.h = propagate(whole, Gather(inf.input_features, whole.src), 1)

\* a finished 1-layer inference on the example graph in batches of 5 (three
\* batches, the last one shorter)
InferenceConsistencyWitness ==
  /\ inf.pc = "done"
  /\ inf.nconvs = 1
  /\ g = ExampleGraph
  /\ inf.batch_size = 5
  /\ Len(inf.h) = 12

\* C12: a fanout list with a non-positive fanout is rejected when the
\* sampler is constructed, so no sampler holding one ever runs or has run
\* sample.
InvalidFanoutRejected ==
  (kind = "neighbor" /\ pc \in {"loop", "done"}) =>
    \A k \in 1..Len(num_fanouts) : num_fanouts[k] >= 1

\* the batches a pass has yielded, one after the other
RECURSIVE YieldedIds(_)
YieldedIds(ys) ==
  IF ys = <<>> THEN <<>> ELSE Head(ys).batch \o YieldedIds(Tail(ys))

\* C13: a pass over n node ids with batch size b yields ceil(n/b) chains;
\* every batch has b ids except possibly the last, every id is in exactly
\* one batch, the last block's dst ids of each chain are its batch, and
\* without shuffling the batches are consecutive chunks of the input.
MinibatchPartition ==
  LET n  == Len(dl.ids)
      b  == dl.batch_size
      ys == dl.yielded
  IN /\ \A k \in 1..Len(ys) :
          /\ Len(ys[k].batch) >= 1
          /\ k < Len(ys) => Len(ys[k].batch) = b
          /\ Len(ys[k].batch) <= b
          /\ ys[k].nblocks = Len(num_fanouts)
          /\ ys[k].output_nodes = ys[k].batch
     /\ NoDup(YieldedIds(ys))
     /\ Range(YieldedIds(ys)) \subseteq Range(dl.ids)
     /\ ~dl.shuffle => YieldedIds(ys) = SubSeq(dl.ids, 1, Len(YieldedIds(ys)))
     /\ dl.pc = "end" =>
          /\ Len(ys) = (n + b - 1) \div b
          /\ Range(YieldedIds(ys)) = Range(dl.ids)
          /\ Len(YieldedIds(ys)) = n

\* a finished shuffled pass of two batches, the last one shorter, in an
\* order other than the input order
MinibatchPartitionWitness ==
  /\ dl.pc = "end"
  /\ dl.shuffle
  /\ Len(dl.ids) = 3
  /\ dl.batch_size = 2
  /\ Len(dl.yielded) = 2
  /\ dl.order # dl.ids
  /\ Len(dl.yielded[1].input_nodes) > Len(dl.yielded[1].batch)

\* C14 as claimed: a sample call whose seeds contain an id >= N fails, and
\* does so before any block is built; it never returns a chain.
OutOfRangeFails ==
  (pc # "idle" /\ \E k \in 1..Len(arg) : arg[k] >= g.n) =>
    /\ pc # "done"
    /\ blocks = <<>>

\* C14 amended: on a sampler with at least one layer, a sample call whose
\* seeds contain an id >= N fails in its first iteration, before any block
\* is built, and never returns a chain (with no layer, sample returns the
\* empty chain without looking at its seeds).
OutOfRangeFailsLayered ==
  (pc # "idle" /\ L >= 1 /\ \E k \in 1..Len(arg) : arg[k] >= g.n) =>
    /\ pc # "done"
    /\ blocks = <<>>
    /\ i = 0

\* a 2-layer call with an in-range and an out-of-range seed has failed
OutOfRangeWitness ==
  /\ pc = "error"
  /\ L = 2
  /\ arg = <<0, g.n>>
  /\ blocks = <<>>

\* C17: the source id list of every built block is the seeds it was built
\* from, in their given order, followed by the edge sources that are not
\* seeds, each once, in the order in which the block's edges, walked seed by
\* seed, first mention them; seeds [4,6,0,2,7] on the example graph under
\* full selection give 4,6,0,2,7,8,9,10,1,3.
SourceOrdering ==
  /\ \A k \in 1..Len(blocks) :
       LET b == blocks[k]
           sd == frontiers[k]
           n == Len(sd)
           first(a) == CHOOSE m \in 1..Len(b.edges) :
                         /\ b.edges[m][1] = a
                         /\ \A q \in 1..(m - 1) : b.edges[q][1] # a
       IN /\ NoDup(sd)
          /\ Len(b.src) >= n
          /\ SubSeq(b.src, 1, n) = sd
          /\ NoDup(b.src)
          /\ \A a \in (n + 1)..Len(b.src) :
               \E m \in 1..Len(b.edges) : b.edges[m][1] = a
          /\ \A a, c \in (n + 1)..Len(b.src) : a < c => first(a) < first(c)
          /\ \A m, q \in 1..Len(b.edges) :
               m < q => b.edges[m][2] <= b.edges[q][2]
  /\ (kind = "full" /\ g = ExampleGraph /\ arg = <<4, 6, 0, 2, 7>>
        /\ blocks # <<>>) =>
       blocks[Len(blocks)].src = <<4, 6, 0, 2, 7, 8, 9, 10, 1, 3>>

\* the block of seeds [4,6,0,2,7] on the example graph is built: its new
\* sources 8,9,10,1,3 are not in id order
SourceOrderingWitness ==
  /\ kind = "full"
  /\ g = ExampleGraph
  /\ arg = <<4, 6, 0, 2, 7>>
  /\ pc = "done"
  /\ Len(blocks) >= 1
  /\ Len(blocks[Len(blocks)].src) = 10

\* C18: every seed a block was built from, with or without selected
\* in-edges, is in the block's dst id list and in the prefix of its src id
\* list, at its position among the seeds; a seed without in-edges in the
\* graph, or sampled with fanout 0, has no edge into it in the block; the
\* number of dst nodes is the number of distinct seeds.
IsolatedSeedsKept ==
  \A k \in 1..Len(blocks) :
    LET b == blocks[k]
        sd == frontiers[k]
    IN /\ b.ndst = Cardinality(Range(sd))
       /\ Len(b.dst) = Len(sd)
       /\ Len(b.src) >= Len(sd)
       /\ \A j \in 1..Len(sd) :
            /\ b.dst[j] = sd[j]
            /\ b.src[j] = sd[j]
            /\ (InEdges(g, sd[j]) = <<>> \/ (kind = "neighbor" /\ used[k] = 0))
                 => BlockInDegree(b, j) = 0

\* seeds [0, 3] on the hub graph: node 3 has no incoming edge and is kept
\* next to node 0, which has three
IsolatedSeedsWitness ==
  /\ pc = "done"
  /\ g = HubGraph
  /\ arg = <<0, 3>>
  /\ L >= 1
  /\ blocks[L].dst = <<0, 3>>
  /\ BlockInDegree(blocks[L], 1) > 0
  /\ BlockInDegree(blocks[L], 2) = 0

\* node v's representation after `layer` layers on the whole graph G with
\* input features x: the layer transform applied to the node's own row and
\* to its in-neighbors' rows of the layer before
RECURSIVE Rep(_, _, _, _)
Rep(G, x, layer, v) ==
  IF layer = 0 THEN x[v + 1]
  ELSE LET es == InEdges(G, v)
       IN Conv(layer, Rep(G, x, layer - 1, v),
               [k \in 1..Len(es) |-> Rep(G, x, layer - 1, es[k][1])])

\* C19: in inference_with_sagenet, for every layer and every batch size
\* b >= 1, the k-th batch is the id range [(k-1)b, min(kb, N)) and the
\* batches of a layer together are 0..N-1, each node once; after each layer
\* completes h has N rows, row v holding node v's representation for that
\* layer; while a layer's batches run, h stays the previous layer's buffer.
RowAlignmentState ==
  inf.pc = "loop" =>
    /\ \A k \in 1..Len(inf.batches) :
         LET lo == (k - 1) * inf.batch_size
             hi == Min(k * inf.batch_size, g.n)
         IN /\ lo < hi
            /\ inf.batches[k] = [m \in 1..(hi - lo) |-> lo + m - 1]
    /\ (inf.conv <= inf.nconvs /\ inf.batch_start >= g.n) =>
         \A v \in Nodes(g) :
           Cardinality({km \in (1..Len(inf.batches)) \X (1..g.n) :
                          /\ km[2] <= Len(inf.batches[km[1]])
                          /\ inf.batches[km[1]][km[2]] = v}) = 1
    /\ \A l \in 1..Len(inf.layer_h) :
         /\ Len(inf.layer_h[l]) = g.n
         /\ \A v \in Nodes(g) :
              inf.layer_h[l][v + 1] = Rep(g, inf.input_features, l, v)
    /\ Len(inf.layer_h) = inf.conv - 1
    /\ inf.h = IF inf.conv = 1 THEN inf.input_features
               ELSE inf.layer_h[inf.conv - 1]

RowAlignment ==
  /\ []RowAlignmentState
  /\ [][(inf.pc = "loop" /\ inf'.conv = inf.conv) => inf'.h = inf.h]_vars

\* two layers are complete on the 4-node chain with batches of 3 (0,1,2
\* and 3): the last batch is short and node 3's row needs node 2's row of
\* the batch before
RowAlignmentWitness ==
  /\ inf.pc = "done"
  /\ g = ChainGraph
  /\ inf.nconvs = 2
  /\ inf.batch_size = 3
  /\ Len(inf.layer_h) = 2
  /\ Len(inf.h) = 4

\* C20: for a model of any number L of layers and every batch size, row v
\* of the result of inference_with_sagenet is the output row of
\* SAGENet.forward over the L-layer chain FullNeighborBlockSampler(g, L)
\* .sample([v]), fed the raw features of the chain's first-block source ids.
LayerwiseEqualsJoint ==
  inf.pc = "done" =>
    /\ Len(inf.h) = g.n
    /\ \A v \in Nodes(g) :
         LET chain == FullSample(g, <<v>>, inf.nconvs)
             out == forward(chain, Gather(inf.input_features, chain[1].src),
                            inf.nconvs)
         IN /\ Len(out) = 1
            /\ inf.h[v + 1] = out[1]

\* a 2-layer model has run over the example graph in batches of 5 (5, 5 and
\* 2 nodes) on features that tell the nodes apart
LayerwiseEqualsJointWitness ==
  /\ inf.pc = "done"
  /\ g = ExampleGraph
  /\ inf.nconvs = 2
  /\ inf.batch_size = 5
  /\ inf.input_features[12] = 11

\* C15 as claimed: what the caller of the fixed-fanout sampler supplies is
\* the graph, the fanouts and the seed set (neither __init__ nor sample takes
\* a random source or a seed for one); two runs given the same of each
\* return identical chains.
ReproducibleSampling ==
  (/\ peers[1].loc.pc = "done"
   /\ peers[2].loc.pc = "done"
   /\ peers[1].cfg.kind = "neighbor"
   /\ peers[1].cfg = peers[2].cfg
   /\ peers[1].arg = peers[2].arg)
    => peers[1].loc.blocks = peers[2].loc.blocks

\* the chains sampler configuration cfg can return for seeds sd when it
\* runs alone
AloneChains(G, cfg, sd) ==
  IF cfg.kind = "full" THEN {FullSample(G, sd, cfg.num_layers)}
  ELSE NeighborSample(G, cfg.num_fanouts, sd)

\* C16: when two samplers over one graph run their sample calls with the
\* loop iterations interleaved in any order, the chain each returns is a
\* chain it can return running alone on its own seeds, built from its own
\* seeds only; no step modifies the graph or a sampler's configuration.
NoInterferenceState ==
  \A p \in {1, 2} :
    LET me == peers[p]
    IN /\ me.loc.pc = "done" =>
            me.loc.blocks \in AloneChains(g, me.cfg, me.arg)
       /\ me.loc.pc = "loop" =>
            /\ Len(me.loc.blocks) = me.loc.i
            /\ me.loc.i = 0 => me.loc.seeds = me.arg
            /\ me.loc.i > 0 =>
                 /\ me.loc.seeds = me.loc.blocks[1].src
                 /\ me.loc.blocks[me.loc.i].dst = me.arg

====
